---- MODULE Spec2Model ----
(***************************************************************************)
(* Model of Engine.ChatCompletion (chat.go): validate the options, apply   *)
(* the MaxTokens default through the caller's pointer, marshal, build the  *)
(* request, execute it, unmarshal the reply.  Each statement of the        *)
(* function is one step of a caller's call, so that two callers'           *)
(* calls interleave statement by statement.                                *)
(***************************************************************************)
EXTENDS Integers, Sequences, FiniteSets, TLC

\* ------------------------------------------------------------ bounds
\* Successive calls the single caller of Spec (and of SpecLive) makes.
MaxCalls == 2
\* Calls each of the two concurrent callers of SpecConc makes.
ConcCalls == 1
\* Cap of the per-call doReq counter (the code never reaches it).
AttemptCap == 2

\* ------------------------------------------------------------ values
Callers == {"c1", "c2"}
\* The options structures callers hold pointers to.
Opts == {"o1", "o2"}

\* Option values: None is <<>>, Some(x) is <<x>>.
None == <<>>
Some(x) == <<x>>

\* A Go slice: nil, or a (possibly empty) sequence of elements.
NilSlice == [isNil |-> TRUE, elems |-> <<>>]
Slice(s) == [isNil |-> FALSE, elems |-> s]

\* float32 values a caller can set: zero, an ordinary value, not-a-number.
Floats == {"0", "0.7", "NaN"}
\* float32 values of the penalty and nucleus fields (finite).
FiniteFloats == {"0", "0.7"}

ChatMessage == [Content |-> "hi", Role |-> "user"]

defaultMaxTokens == 16

ChatCompletionOptions ==
  [Model : {"", "gpt-x"},
   Messages : {NilSlice, Slice(<<>>), Slice(<<ChatMessage>>)},
   Temperature : Floats,
   TopP : FiniteFloats,
   N : {0, 2},
   Stop : {NilSlice, Slice(<<>>), Slice(<<"END">>)},
   MaxTokens : {0, 7, defaultMaxTokens},
   PresencePenalty : FiniteFloats,
   FrequencyPenalty : FiniteFloats]

\* The zero value of the structure.
ZeroOptions ==
  [Model |-> "", Messages |-> NilSlice, Temperature |-> "0", TopP |-> "0",
   N |-> 0, Stop |-> NilSlice, MaxTokens |-> 0, PresencePenalty |-> "0",
   FrequencyPenalty |-> "0"]

\* The scenario request of the documentation: model and one message only.
BaseOptions ==
  [ZeroOptions EXCEPT !.Model = "gpt-x", !.Messages = Slice(<<ChatMessage>>)]

\* The options the concurrent and the fair specifications start from.
SmallOptions ==
  {o \in ChatCompletionOptions :
     /\ o.Messages = Slice(<<ChatMessage>>)
     /\ o.TopP = "0" /\ o.N = 0 /\ o.Stop = NilSlice
     /\ o.PresencePenalty = "0" /\ o.FrequencyPenalty = "0"
     /\ o.Temperature \in {"0", "NaN"}
     /\ o.MaxTokens \in {0, 7}}

Fields ==
  {"Model", "Messages", "Temperature", "TopP", "N", "Stop", "MaxTokens",
   "PresencePenalty", "FrequencyPenalty"}

\* ------------------------------------------------------------ errors
NoErr == "nil"
ValidationError == "ValidationError"
SerializationError == "SerializationError"
RequestError == "RequestError"
ContextError == "TransportError: context canceled"
TransportErrors ==
  {"TransportError: network", "TransportError: status", ContextError}
DeserializationError == "DeserializationError"

\* ------------------------------------------------------------ replies
\* Bodies the server can answer with.
RespBodies == {"completion.json", "malformed.json"}
DecodedResponse ==
  [Id |-> "cmpl-1", Object |-> "chat.completion", Created |-> 1,
   Choices |-> <<[Message |-> [Content |-> "hello", Role |-> "assistant"],
                  Index |-> 0, FinishReason |-> "stop"]>>,
   Usage |-> [PromptTokens |-> 1, CompletionTokens |-> 1, TotalTokens |-> 2]]

VARIABLES
  heap,        \* the options structures, by pointer
  pc,          \* each caller's position in ChatCompletion
  arg,         \* opts: the pointer each call was given
  ctxAt,       \* ctx: "none" while live, else when it was cancelled: "before"
               \* the HTTP exchange completed, or "after"
  entry,       \* the value of *opts when the call was entered
  r,           \* the marshalled body
  req,         \* the request newReq built
  resp,        \* the bytes doReq returned
  ret,         \* the pair ChatCompletion returned
  stages,      \* the stages the call has run, in order
  raised,      \* the error of the first stage that failed
  newReqCalls, \* invocations of newReq in this call
  doReqCalls,  \* invocations of doReq in this call
  reads,       \* locations of the heap this call has read
  writes,      \* locations of the heap this call has written
  sent,        \* per options structure, the bodies handed to doReq
  left         \* calls each caller may still make

vars ==
  <<heap, pc, arg, ctxAt, entry, r, req, resp, ret, stages, raised,
    newReqCalls, doReqCalls, reads, writes, sent, left>>

NoRet == [resp |-> None, err |-> NoErr]

\* ------------------------------------------------------------ helpers
ValidateModelOnly(o) ==
  IF o.Model = "" THEN ValidationError ELSE NoErr

\* binding:"required" on Model and Messages: a string is required to be
\* non-empty, a slice to be non-nil.
Validate(o) ==
  IF o.Model = "" \/ o.Messages.isNil THEN ValidationError ELSE NoErr

NeedsDefaultAlways(mt) == TRUE

\* if opts.MaxTokens == 0
NeedsDefault(mt) == mt = 0

\* json:"...,omitempty": a number is left out when it equals 0, a slice when
\* its length is 0.
EmptyFloat(f) == f = "0"
EmptySlice(s) == Len(s.elems) = 0

EncodeMessages(m) ==
  [i \in DOMAIN m.elems |->
     [content |-> m.elems[i].Content, role |-> m.elems[i].Role]]

Keys(o) ==
  {"model", "messages"}
    \cup (IF EmptyFloat(o.Temperature) THEN {} ELSE {"temperature"})
    \cup (IF EmptyFloat(o.TopP) THEN {} ELSE {"top_p"})
    \cup (IF o.N = 0 THEN {} ELSE {"n"})
    \cup (IF EmptySlice(o.Stop) THEN {} ELSE {"stop"})
    \cup (IF o.MaxTokens = 0 THEN {} ELSE {"max_tokens"})
    \cup (IF EmptyFloat(o.PresencePenalty) THEN {} ELSE {"presence_penalty"})
    \cup (IF EmptyFloat(o.FrequencyPenalty) THEN {} ELSE {"frequency_penalty"})

KeysNoOmitN(o) == Keys(o) \cup {"n"}

Value(o, k) ==
  CASE k = "model" -> o.Model
    [] k = "messages" -> EncodeMessages(o.Messages)
    [] k = "temperature" -> o.Temperature
    [] k = "top_p" -> o.TopP
    [] k = "n" -> o.N
    [] k = "stop" -> o.Stop.elems
    [] k = "max_tokens" -> o.MaxTokens
    [] k = "presence_penalty" -> o.PresencePenalty
    [] k = "frequency_penalty" -> o.FrequencyPenalty

EncodeOptionsNoOmitN(o) == [k \in KeysNoOmitN(o) |-> Value(o, k)]

\* The JSON object of an options value, as the field tags lay it out.
EncodeOptions(o) == [k \in Keys(o) |-> Value(o, k)]

\* marshalJson: the encoding, or an error for a value JSON cannot hold.
MarshalJson(o) ==
  IF "NaN" \in {o.Temperature, o.TopP, o.PresencePenalty, o.FrequencyPenalty}
  THEN [err |-> SerializationError, bytes |-> None]
  ELSE [err |-> NoErr, bytes |-> Some(EncodeOptions(o))]

\* unmarshal(resp, &result)
Unmarshal(b) ==
  IF b = "completion.json"
  THEN [err |-> NoErr, result |-> DecodedResponse]
  ELSE [err |-> DeserializationError, result |-> "partial"]

\* uri := e.apiBaseURL + "/chat/completions"
Uri == <<"apiBaseURL", "/chat/completions">>

ReturnErrPartial(err) == [resp |-> Some("partial"), err |-> err]

\* return nil, err
ReturnErr(err) == [resp |-> None, err |-> err]

\* return &result, nil
ReturnOk(result) == [resp |-> Some(result), err |-> NoErr]

\* The position after each stage: an error returns, success goes on.
AfterValidate(err) == IF err # NoErr THEN "done" ELSE "default"
AfterMarshal(err) == IF err # NoErr THEN "done" ELSE "newReq"

AfterNewReqIgnoreErr(err) == "doReq"

AfterNewReq(err) == IF err # NoErr THEN "done" ELSE "doReq"

AfterDoReqRetry(err) == IF err # NoErr THEN "doReq" ELSE "unmarshal"

AfterDoReq(err) == IF err # NoErr THEN "done" ELSE "unmarshal"

MarshalSourceStale(c) == entry[c]

\* marshalJson(opts) reads the structure behind the pointer.
MarshalSource(c) == heap[arg[c]]

FirstErr(c, err) == IF raised[c] = NoErr THEN err ELSE raised[c]

Loc(o, F) == {<<o, f>> : f \in F}

\* ------------------------------------------------------------ actions
\* A caller enters ChatCompletion(ctx, opts); ctx may already be cancelled.
Start(c, o, cancelled) ==
  /\ pc[c] = "idle"
  /\ left[c] > 0
  /\ left' = [left EXCEPT ![c] = @ - 1]
  /\ pc' = [pc EXCEPT ![c] = "validate"]
  /\ arg' = [arg EXCEPT ![c] = o]
  /\ ctxAt' = [ctxAt EXCEPT ![c] = IF cancelled THEN "before" ELSE "none"]
  /\ entry' = [entry EXCEPT ![c] = heap[o]]
  /\ UNCHANGED <<heap, r, req, resp, ret, stages, raised, newReqCalls,
                 doReqCalls, reads, writes, sent>>

\* The caller cancels the context (or its deadline elapses) during the call.
CtxCancel(c) ==
  /\ pc[c] \notin {"idle", "done"}
  /\ ctxAt[c] = "none"
  /\ ctxAt' = [ctxAt EXCEPT ![c] =
                 IF pc[c] = "unmarshal" THEN "after" ELSE "before"]
  /\ UNCHANGED <<heap, pc, arg, entry, r, req, resp, ret, stages, raised,
                 newReqCalls, doReqCalls, reads, writes, sent, left>>

\* e.validate.StructCtx(ctx, opts)
ValidateStep(c) ==
  /\ pc[c] = "validate"
  /\ LET err == Validate(heap[arg[c]]) IN
       /\ pc' = [pc EXCEPT ![c] = AfterValidate(err)]
       /\ ret' = [ret EXCEPT ![c] =
                    IF AfterValidate(err) = "done" THEN ReturnErr(err) ELSE @]
       /\ raised' = [raised EXCEPT ![c] = FirstErr(c, err)]
  /\ stages' = [stages EXCEPT ![c] = Append(@, "validate")]
  /\ reads' = [reads EXCEPT ![c] = @ \cup Loc(arg[c], {"Model", "Messages"})]
  /\ UNCHANGED <<heap, arg, ctxAt, entry, r, req, resp, newReqCalls,
                 doReqCalls, writes, sent, left>>

\* if opts.MaxTokens == 0
DefaultCheck(c) ==
  /\ pc[c] = "default"
  /\ pc' = [pc EXCEPT ![c] =
              IF NeedsDefault(heap[arg[c]].MaxTokens) THEN "assign"
              ELSE "marshal"]
  /\ stages' = [stages EXCEPT ![c] = Append(@, "default")]
  /\ reads' = [reads EXCEPT ![c] = @ \cup Loc(arg[c], {"MaxTokens"})]
  /\ UNCHANGED <<heap, arg, ctxAt, entry, r, req, resp, ret, raised,
                 newReqCalls, doReqCalls, writes, sent, left>>

\* opts.MaxTokens = defaultMaxTokens
DefaultAssign(c) ==
  /\ pc[c] = "assign"
  /\ heap' = [heap EXCEPT ![arg[c]].MaxTokens = defaultMaxTokens]
  /\ writes' = [writes EXCEPT ![c] = @ \cup Loc(arg[c], {"MaxTokens"})]
  /\ pc' = [pc EXCEPT ![c] = "marshal"]
  /\ UNCHANGED <<arg, ctxAt, entry, r, req, resp, ret, stages, raised,
                 newReqCalls, doReqCalls, reads, sent, left>>

\* r, err := marshalJson(opts)
MarshalStep(c) ==
  /\ pc[c] = "marshal"
  /\ LET m == MarshalJson(MarshalSource(c)) IN
       /\ r' = [r EXCEPT ![c] = m.bytes]
       /\ pc' = [pc EXCEPT ![c] = AfterMarshal(m.err)]
       /\ ret' = [ret EXCEPT ![c] =
                    IF AfterMarshal(m.err) = "done" THEN ReturnErr(m.err)
                    ELSE @]
       /\ raised' = [raised EXCEPT ![c] = FirstErr(c, m.err)]
  /\ stages' = [stages EXCEPT ![c] = Append(@, "serialize")]
  /\ reads' = [reads EXCEPT ![c] = @ \cup Loc(arg[c], Fields)]
  /\ UNCHANGED <<heap, arg, ctxAt, entry, req, resp, newReqCalls,
                 doReqCalls, writes, sent, left>>

\* req, err := e.newReq(ctx, http.MethodPost, uri, "json", r)
NewReqStep(c, ok) ==
  /\ pc[c] = "newReq"
  /\ newReqCalls' = [newReqCalls EXCEPT ![c] = @ + 1]
  /\ LET err == IF ok THEN NoErr ELSE RequestError IN
       /\ req' = [req EXCEPT ![c] =
                    IF ok THEN Some([method |-> "POST", uri |-> Uri,
                                     enc |-> "json", body |-> r[c][1]])
                    ELSE None]
       /\ pc' = [pc EXCEPT ![c] = AfterNewReq(err)]
       /\ ret' = [ret EXCEPT ![c] =
                    IF AfterNewReq(err) = "done" THEN ReturnErr(err) ELSE @]
       /\ raised' = [raised EXCEPT ![c] = FirstErr(c, err)]
  /\ stages' = [stages EXCEPT ![c] = Append(@, "construct")]
  /\ UNCHANGED <<heap, arg, ctxAt, entry, r, resp, doReqCalls, reads,
                 writes, sent, left>>

\* e.doReq(req) is invoked: the request goes out.
DoReqInvoke(c) ==
  /\ pc[c] = "doReq"
  /\ doReqCalls[c] < AttemptCap
  /\ doReqCalls' = [doReqCalls EXCEPT ![c] = @ + 1]
  /\ stages' = [stages EXCEPT ![c] = Append(@, "execute")]
  /\ sent' = [sent EXCEPT ![arg[c]] =
                Append(@, [body |-> r[c][1], entryMaxTokens |-> entry[c].MaxTokens])]
  /\ pc' = [pc EXCEPT ![c] = "await"]
  /\ UNCHANGED <<heap, arg, ctxAt, entry, r, req, resp, ret, raised,
                 newReqCalls, reads, writes, left>>

\* e.doReq(req) returns err: the position, the return value and the error.
DoReqFailed(c, err) ==
  /\ pc' = [pc EXCEPT ![c] = AfterDoReq(err)]
  /\ ret' = [ret EXCEPT ![c] =
               IF AfterDoReq(err) = "done" THEN ReturnErr(err) ELSE @]
  /\ raised' = [raised EXCEPT ![c] = FirstErr(c, err)]
  /\ UNCHANGED <<heap, arg, ctxAt, entry, r, req, resp, stages, newReqCalls,
                 doReqCalls, reads, writes, sent, left>>

\* The exchange completes under a live context with the bytes of a reply.
DoReqReply(c, b) ==
  /\ pc[c] = "await"
  /\ ctxAt[c] = "none"
  /\ resp' = [resp EXCEPT ![c] = Some(b)]
  /\ pc' = [pc EXCEPT ![c] = AfterDoReq(NoErr)]
  /\ UNCHANGED <<heap, arg, ctxAt, entry, r, req, ret, stages, raised,
                 newReqCalls, doReqCalls, reads, writes, sent, left>>

\* The exchange fails under a live context: the network, or a non-2xx status.
DoReqError(c, err) ==
  /\ pc[c] = "await"
  /\ ctxAt[c] = "none"
  /\ DoReqFailed(c, err)

\* The context is cancelled before the exchange completes: doReq unblocks.
DoReqCancelled(c) ==
  /\ pc[c] = "await"
  /\ ctxAt[c] # "none"
  /\ DoReqFailed(c, ContextError)

\* var result; unmarshal(resp, &result); return
UnmarshalStep(c) ==
  /\ pc[c] = "unmarshal"
  /\ LET u == Unmarshal(resp[c][1]) IN
       /\ ret' = [ret EXCEPT ![c] =
                    IF u.err # NoErr THEN ReturnErr(u.err)
                    ELSE ReturnOk(u.result)]
       /\ raised' = [raised EXCEPT ![c] = FirstErr(c, u.err)]
  /\ pc' = [pc EXCEPT ![c] = "done"]
  /\ stages' = [stages EXCEPT ![c] = Append(@, "deserialize")]
  /\ UNCHANGED <<heap, arg, ctxAt, entry, r, req, resp, newReqCalls,
                 doReqCalls, reads, writes, sent, left>>

\* The caller has the returned pair; the call's locals are gone.
Finish(c) ==
  /\ pc[c] = "done"
  /\ pc' = [pc EXCEPT ![c] = "idle"]
  /\ ctxAt' = [ctxAt EXCEPT ![c] = "none"]
  /\ entry' = [entry EXCEPT ![c] = ZeroOptions]
  /\ r' = [r EXCEPT ![c] = None]
  /\ req' = [req EXCEPT ![c] = None]
  /\ resp' = [resp EXCEPT ![c] = None]
  /\ ret' = [ret EXCEPT ![c] = NoRet]
  /\ stages' = [stages EXCEPT ![c] = <<>>]
  /\ raised' = [raised EXCEPT ![c] = NoErr]
  /\ newReqCalls' = [newReqCalls EXCEPT ![c] = 0]
  /\ doReqCalls' = [doReqCalls EXCEPT ![c] = 0]
  /\ reads' = [reads EXCEPT ![c] = {}]
  /\ writes' = [writes EXCEPT ![c] = {}]
  /\ UNCHANGED <<heap, arg, sent, left>>

\* Between calls a caller sets the exported MaxTokens field of a structure
\* no call is using.
CallerModify(o, mt) ==
  /\ \A c \in Callers : pc[c] = "idle" \/ arg[c] # o
  /\ heap[o].MaxTokens # mt
  /\ \E c \in Callers : left[c] > 0
  /\ heap' = [heap EXCEPT ![o].MaxTokens = mt]
  /\ sent' = [sent EXCEPT ![o] = <<>>]
  /\ UNCHANGED <<pc, arg, ctxAt, entry, r, req, resp, ret, stages, raised,
                 newReqCalls, doReqCalls, reads, writes, left>>

\* ------------------------------------------------------------ specifications
InitLocals ==
  /\ pc = [c \in Callers |-> "idle"]
  /\ arg = [c \in Callers |-> "o1"]
  /\ ctxAt = [c \in Callers |-> "none"]
  /\ entry = [c \in Callers |-> ZeroOptions]
  /\ r = [c \in Callers |-> None]
  /\ req = [c \in Callers |-> None]
  /\ resp = [c \in Callers |-> None]
  /\ ret = [c \in Callers |-> NoRet]
  /\ stages = [c \in Callers |-> <<>>]
  /\ raised = [c \in Callers |-> NoErr]
  /\ newReqCalls = [c \in Callers |-> 0]
  /\ doReqCalls = [c \in Callers |-> 0]
  /\ reads = [c \in Callers |-> {}]
  /\ writes = [c \in Callers |-> {}]
  /\ sent = [o \in Opts |-> <<>>]

\* One caller, successive calls, any options value behind o1.
Init ==
  /\ InitLocals
  /\ heap \in {h \in [Opts -> ChatCompletionOptions] : h["o2"] = BaseOptions}
  /\ left = [c \in Callers |-> IF c = "c1" THEN MaxCalls ELSE 0]

\* Two callers at once, each free to pass either pointer.
InitConc ==
  /\ InitLocals
  /\ heap \in [Opts -> SmallOptions]
  /\ left = [c \in Callers |-> ConcCalls]

\* One caller; the options that reach every stage.
InitLive ==
  /\ InitLocals
  /\ heap \in {h \in [Opts -> SmallOptions] : h["o2"] = BaseOptions}
  /\ left = [c \in Callers |-> IF c = "c1" THEN MaxCalls ELSE 0]

Next ==
  \/ \E c \in Callers, o \in Opts, cancelled \in BOOLEAN : Start(c, o, cancelled)
  \/ \E c \in Callers : CtxCancel(c)
  \/ \E c \in Callers : ValidateStep(c)
  \/ \E c \in Callers : DefaultCheck(c)
  \/ \E c \in Callers : DefaultAssign(c)
  \/ \E c \in Callers : MarshalStep(c)
  \/ \E c \in Callers, ok \in BOOLEAN : NewReqStep(c, ok)
  \/ \E c \in Callers : DoReqInvoke(c)
  \/ \E c \in Callers, b \in RespBodies : DoReqReply(c, b)
  \/ \E c \in Callers, err \in TransportErrors \ {ContextError} : DoReqError(c, err)
  \/ \E c \in Callers : DoReqCancelled(c)
  \/ \E c \in Callers : UnmarshalStep(c)
  \/ \E c \in Callers : Finish(c)
  \/ \E o \in Opts, mt \in {0, 7, defaultMaxTokens} : CallerModify(o, mt)

Spec == Init /\ [][Next]_vars

SpecConc == InitConc /\ [][Next]_vars

\* The steps a running call takes by itself; a reply of the server is not
\* among them (the server may never answer).
Progress(c) ==
  \/ ValidateStep(c)
  \/ DefaultCheck(c)
  \/ DefaultAssign(c)
  \/ MarshalStep(c)
  \/ \E ok \in BOOLEAN : NewReqStep(c, ok)
  \/ DoReqInvoke(c)
  \/ DoReqCancelled(c)
  \/ UnmarshalStep(c)

SpecLive == InitLive /\ [][Next]_vars /\ \A c \in Callers : WF_vars(Progress(c))

\* ------------------------------------------------------------ claims
\* A required field is missing: Model unset, or Messages nil.
MissingRequired(o) == o.Model = "" \/ o.Messages = NilSlice

InFlight(c) == pc[c] \notin {"idle", "done"}

IsPrefix(s, t) ==
  /\ Len(s) <= Len(t)
  /\ \A i \in 1..Len(s) : s[i] = t[i]

StageOrder ==
  <<"validate", "default", "serialize", "construct", "execute", "deserialize">>

\* The stage an error comes from.
StageOf(err) ==
  CASE err = ValidationError -> "validate"
    [] err = SerializationError -> "serialize"
    [] err = RequestError -> "construct"
    [] err \in TransportErrors -> "execute"
    [] err = DeserializationError -> "deserialize"

\* C1: a call entered with Model or Messages missing never invokes newReq or
\* doReq, and returns (nil, the validation error).
C1_ValidationNoNetwork ==
  \A c \in Callers :
    (pc[c] # "idle" /\ MissingRequired(entry[c])) =>
      /\ newReqCalls[c] = 0
      /\ doReqCalls[c] = 0
      /\ req[c] = None
      /\ pc[c] = "done" => ret[c] = [resp |-> None, err |-> ValidationError]

C1_Witness ==
  \E c \in Callers :
    /\ pc[c] = "done"
    /\ entry[c].Model = "gpt-x"
    /\ entry[c].Messages = NilSlice
    /\ ret[c].err = ValidationError

\* C2: the serialized body's max_tokens is defaultMaxTokens when the call
\* was entered with MaxTokens = 0, and the caller's value otherwise.
C2_MaxTokensDefault ==
  \A c \in Callers :
    r[c] # None =>
      /\ "max_tokens" \in DOMAIN r[c][1]
      /\ r[c][1]["max_tokens"] =
           IF entry[c].MaxTokens = 0 THEN defaultMaxTokens
           ELSE entry[c].MaxTokens

C2_Witness ==
  \E c \in Callers :
    /\ r[c] # None
    /\ entry[c].MaxTokens = 0
    /\ r[c][1]["max_tokens"] = defaultMaxTokens

\* C3: a call entered with MaxTokens = 0 has returned: the structure the
\* caller holds has the MaxTokens it had on entry.
C3_DefaultDoesNotPersist ==
  \A c \in Callers :
    (pc[c] = "done" /\ entry[c].MaxTokens = 0) =>
      heap[arg[c]].MaxTokens = entry[c].MaxTokens

\* C4: the stages run in the fixed order; the first stage that fails ends
\* the call, which returns that stage's error unchanged; a call that returns
\* without an error has run all six.
C4_StageOrder ==
  \A c \in Callers :
    /\ IsPrefix(stages[c], StageOrder)
    /\ raised[c] # NoErr =>
         /\ pc[c] = "done"
         /\ stages[c][Len(stages[c])] = StageOf(raised[c])
         /\ ret[c] = [resp |-> None, err |-> raised[c]]
    /\ (pc[c] = "done" /\ raised[c] = NoErr) => stages[c] = StageOrder

C4_Witness ==
  \E c \in Callers :
    /\ pc[c] = "done"
    /\ raised[c] = RequestError
    /\ stages[c] = <<"validate", "default", "serialize", "construct">>

\* C5: doReq is invoked at most once in a call, and exactly once in a call
\* whose validation, serialization and request construction succeeded.
C5_AtMostOneAttempt ==
  \A c \in Callers :
    /\ doReqCalls[c] <= 1
    /\ (/\ pc[c] = "done"
        /\ raised[c] \notin {ValidationError, SerializationError, RequestError})
         => doReqCalls[c] = 1

C5_Witness ==
  \E c \in Callers :
    /\ pc[c] = "done"
    /\ raised[c] = "TransportError: network"
    /\ doReqCalls[c] = 1

\* C6: a returned call gave either a response and no error, or an error and
\* no response; a failed stage gives no response; a response is the decoded
\* body of a reply whose deserialization succeeded.
C6_ResponseXorError ==
  \A c \in Callers :
    pc[c] = "done" =>
      /\ (ret[c].resp = None) # (ret[c].err = NoErr)
      /\ raised[c] # NoErr => (ret[c].resp = None /\ ret[c].err = raised[c])
      /\ ret[c].resp # None =>
           /\ resp[c] # None
           /\ Unmarshal(resp[c][1]).err = NoErr
           /\ ret[c].resp = Some(Unmarshal(resp[c][1]).result)

C6_Witness ==
  \E c \in Callers :
    /\ pc[c] = "done"
    /\ raised[c] = DeserializationError
    /\ ret[c].resp = None

\* C7: of two calls in flight at once, neither has written a location the
\* other has read or written.
C7_NoSharedLocation ==
  \A c1, c2 \in Callers :
    (c1 # c2 /\ InFlight(c1) /\ InFlight(c2)) =>
      writes[c1] \cap (reads[c2] \cup writes[c2]) = {}

\* The call left behind nothing but the MaxTokens default in *opts.
OnlyDefaultLeft(c) ==
  /\ \A f \in Fields \ {"MaxTokens"} : heap[arg[c]][f] = entry[c][f]
  /\ heap[arg[c]].MaxTokens \in {entry[c].MaxTokens, defaultMaxTokens}

IsZeroValue(o, f) ==
  IF f = "Stop" THEN o.Stop = NilSlice
  ELSE IF f = "N" THEN o.N = 0
  ELSE o[f] = "0"

\* The JSON key of each optional field of the claim.
OptionalKey ==
  [Temperature |-> "temperature", TopP |-> "top_p", N |-> "n",
   Stop |-> "stop", PresencePenalty |-> "presence_penalty",
   FrequencyPenalty |-> "frequency_penalty"]

CallerValue(o, f) == IF f = "Stop" THEN o.Stop.elems ELSE o[f]

\* C9 as stated: an optional field at its zero value is absent from the
\* serialized body, one that is not is present with the caller's value; model
\* and messages are present.
C9_ZeroValueOmitted ==
  \A c \in Callers :
    r[c] # None =>
      /\ {"model", "messages"} \subseteq DOMAIN r[c][1]
      /\ \A f \in DOMAIN OptionalKey :
           IF IsZeroValue(entry[c], f)
           THEN OptionalKey[f] \notin DOMAIN r[c][1]
           ELSE /\ OptionalKey[f] \in DOMAIN r[c][1]
                /\ r[c][1][OptionalKey[f]] = CallerValue(entry[c], f)

\* Empty in the encoder's sense: 0 for a number, length 0 for a slice.
IsEmptyValue(o, f) ==
  IF f = "Stop" THEN Len(o.Stop.elems) = 0
  ELSE IF f = "N" THEN o.N = 0
  ELSE o[f] = "0"

\* C9 amended: an optional field that is empty (a number equal to 0, a Stop of
\* length 0, nil or not) is absent from the serialized body, one that is not
\* is present with the caller's value; model and messages are present with
\* the caller's values.
C9_EmptyOmitted ==
  \A c \in Callers :
    r[c] # None =>
      /\ {"model", "messages"} \subseteq DOMAIN r[c][1]
      /\ r[c][1]["model"] = entry[c].Model
      /\ Len(r[c][1]["messages"]) = Len(entry[c].Messages.elems)
      /\ \A f \in DOMAIN OptionalKey :
           IF IsEmptyValue(entry[c], f)
           THEN OptionalKey[f] \notin DOMAIN r[c][1]
           ELSE /\ OptionalKey[f] \in DOMAIN r[c][1]
                /\ r[c][1][OptionalKey[f]] = CallerValue(entry[c], f)

C9_Witness ==
  \E c \in Callers :
    /\ r[c] # None
    /\ entry[c].Stop = Slice(<<>>)
    /\ "stop" \notin DOMAIN r[c][1]
    /\ entry[c].N = 2
    /\ r[c][1]["n"] = 2
    /\ entry[c].Temperature = "0"
    /\ "temperature" \notin DOMAIN r[c][1]

\* C10: the bodies successive calls send for one options structure the
\* caller has not modified in between are all equal.
C10_RepeatedCallsSameBody ==
  \A o \in Opts :
    \A i, j \in DOMAIN sent[o] :
      /\ DOMAIN sent[o][i].body = DOMAIN sent[o][j].body
      /\ sent[o][i].body = sent[o][j].body

C10_Witness ==
  \E o \in Opts :
    /\ Len(sent[o]) >= 2
    /\ sent[o][1].entryMaxTokens = 0
    /\ sent[o][2].entryMaxTokens = defaultMaxTokens
    /\ sent[o][2].body["max_tokens"] = defaultMaxTokens

====
